---- MODULE Spec2Model ----
(***************************************************************************)
(* A model of the library-lending web application (src/server.py,          *)
(* src/models.py, src/constants.py): the user and book tables, the signed  *)
(* credential cookies of each browser, and every route handler, split at   *)
(* its database statements so that requests of different browsers can      *)
(* interleave.                                                             *)
(*                                                                         *)
(* Time is counted in ticks, TicksPerSecond of them to a second, because   *)
(* time.time() is a float while User.last_seen is an integer column: what  *)
(* is stored is the whole-second part of the time that was assigned.       *)
(***************************************************************************)
EXTENDS Integers, Sequences, FiniteSets, TLC

\* ------------------------------------------------------------ bounds
\* Resolution of the model's clock: ticks in one second.
TicksPerSecond == 2
\* How many waits of just under one session window a behaviour may hold.
MaxLongWaits == 1
\* How many single ticks a behaviour may hold beside the long waits.
MaxShortTicks == 2

\* --------------------------------------------------------- constants
\* server.py:436, the freshness window of get_logged_in_user, in seconds.
SESSION_SECONDS == 3600
\* constants.py:8
ALLOWED_BORROW_DAYS == 30
\* Seconds in one calendar day (datetime.date arithmetic).
SecondsPerDay == 24 * 60 * 60

\* A nullable column or variable: Null, or Some(v).
Null == <<>>
Some(v) == <<v>>
Val(x) == x[1]

\* ------------------------------------------------------------- clock
\* The behaviours start one second before midnight, so that today's date
\* changes within the ticks a behaviour holds.
StartTime == (SecondsPerDay - 1) * TicksPerSecond
LongWait == (SESSION_SECONDS - 1) * TicksPerSecond
Horizon == StartTime + MaxLongWaits * LongWait + MaxShortTicks

\* peewee's IntegerField.adapt is int(): a float time of t ticks is stored
\* as its whole seconds.
IntegerAdapt(t) == t \div TicksPerSecond
\* An integer column read back into Python, as a time in ticks.
SecondsToTicks(s) == s * TicksPerSecond
\* datetime.date.today(), as a day number.
DateToday(t) == (t \div TicksPerSecond) \div SecondsPerDay

\* -------------------------------------------------------------- data
Clients == {"c1", "c2"}

\* The two administrators create_initial_data() inserts.
SeedUsers ==
  << [email |-> "diaz.ayax@gmail.com", first_name |-> "Ayax", last_name |-> "Diaz",
      password |-> "chorizo", logged_in |-> FALSE, last_seen |-> Null,
      is_admin |-> TRUE],
     [email |-> "mustafa.sanli@gmail.com", first_name |-> "Mustafa",
      last_name |-> "Sanli", password |-> "1234", logged_in |-> FALSE,
      last_seen |-> Null, is_admin |-> TRUE] >>

\* The books of the store (rows of books.csv), by id. No route creates or
\* deletes a book. TitleRank is the position of the title in ORDER BY title.
BookIds == {1, 2}
TitleRank == <<2, 1>>
AuthorIds == {1, 2}
SeedBookAuthor == {<<1, 1>>, <<2, 1>>, <<2, 2>>}
SeedBooks == [b \in BookIds |-> [borrowed_by |-> Null, borrowed_at |-> Null]]

\* What the forms and URLs of the requests are drawn from.
FormEmails == {"", "diaz.ayax@gmail.com", "a@b.com"}
FormPasswords == {"", "chorizo", "x"}
FormFirstNames == {"", "Ann"}
FormLastNames == {"", "Lee"}
UrlBookIds == {1, 2, 3}

VARIABLES
  now,          \* the clock, in ticks
  users,        \* the user table: a sequence of rows, the id is the index
  books,        \* the book table: id -> [borrowed_by, borrowed_at]
  book_author,  \* the book_author_through table: a set of <<book, author>>
  jar,          \* each browser's cookies: [email, password], each nullable
  pc,           \* where each browser's request in flight stands
  loc,          \* the locals of the handler serving it
  resp,         \* the response sent since the last request arrived, if any
  stamp         \* the float time last saved as a user's last_seen, and whose

vars == <<now, users, books, book_author, jar, pc, loc, resp, stamp>>

NoCookies == [email |-> Null, password |-> Null]
NoLocals == [route |-> "", user |-> Null, book_id |-> 0, form |-> Null]
NoResponse == [client |-> "", kind |-> "none", route |-> "", at |-> "",
               error |-> <<>>, form |-> Null, user |-> Null, books |-> <<>>]

Init ==
  /\ now = StartTime
  /\ users = SeedUsers
  /\ books = SeedBooks
  /\ book_author = SeedBookAuthor
  /\ jar = [c \in Clients |-> NoCookies]
  /\ pc = [c \in Clients |-> "idle"]
  /\ loc = [c \in Clients |-> NoLocals]
  /\ resp = NoResponse
  /\ stamp = Null


\* ------------------------------------------------------------ the ORM
UserIds(us) == 1 .. Len(us)

\* Model.get: the first row of a SELECT, or DoesNotExist (Null).
FirstOf(ids) == IF ids = {} THEN Null ELSE Some(CHOOSE i \in ids : \A j \in ids : i <= j)

\* A row read into a Model instance. Times held in Python are in ticks.
LoadUser(us, i) ==
  [id |-> i, email |-> us[i].email, first_name |-> us[i].first_name,
   last_name |-> us[i].last_name, password |-> us[i].password,
   logged_in |-> us[i].logged_in,
   last_seen |-> IF us[i].last_seen = Null THEN Null
                 ELSE Some(SecondsToTicks(Val(us[i].last_seen))),
   is_admin |-> us[i].is_admin]

\* The row Model.save() writes: every field of the instance (peewee's
\* only_save_dirty is off), each through its field's db_value.
UserRow(inst) ==
  [email |-> inst.email, first_name |-> inst.first_name,
   last_name |-> inst.last_name, password |-> inst.password,
   logged_in |-> inst.logged_in,
   last_seen |-> IF inst.last_seen = Null THEN Null
                 ELSE Some(IntegerAdapt(Val(inst.last_seen))),
   is_admin |-> inst.is_admin]

\* user.save(): UPDATE user SET ... WHERE id = inst.id
SaveUser(us, inst) == [us EXCEPT ![inst.id] = UserRow(inst)]

\* The time the saved instance holds in last_seen, as Python holds it: the
\* float that time.time() returned, before the column's int().
Stamp(inst) == Some([user |-> inst.id, at |-> Val(inst.last_seen)])

\* A user table without the unique index.
EmailNeverTaken(us, email) == FALSE

\* The unique index on User.email.
EmailTaken(us, email) == \E i \in UserIds(us) : us[i].email = email

\* User.create(first_name, last_name, email, password): the instance and
\* the row inserted, with the defaults of the model.
NewUser(us, form) ==
  [id |-> Len(us) + 1, email |-> form.email, first_name |-> form.first_name,
   last_name |-> form.last_name, password |-> form.password,
   logged_in |-> FALSE, last_seen |-> Null, is_admin |-> FALSE]

\* ------------------------------------------------------ the resolver
\* The clause without its logged_in test, and with <= for <.
SessionMatchesLoggedOut(row, cookies, t) ==
  /\ cookies.email # Null
  /\ row.email = Val(cookies.email)
  /\ cookies.password # Null
  /\ row.password = Val(cookies.password)
  /\ row.last_seen # Null
  /\ t - SecondsToTicks(Val(row.last_seen)) < SecondsToTicks(SESSION_SECONDS)

SessionMatchesInclusive(row, cookies, t) ==
  /\ cookies.email # Null
  /\ row.email = Val(cookies.email)
  /\ cookies.password # Null
  /\ row.password = Val(cookies.password)
  /\ row.logged_in = TRUE
  /\ row.last_seen # Null
  /\ t - SecondsToTicks(Val(row.last_seen)) <= SecondsToTicks(SESSION_SECONDS)

\* The WHERE clause of get_logged_in_user on one row, at time t (ticks).
\* A missing or tampered cookie reads as None, and "email = None" is
\* rendered IS NULL, which no row satisfies; a NULL last_seen makes the
\* comparison NULL, which is not true.
SessionMatches(row, cookies, t) ==
  /\ cookies.email # Null
  /\ row.email = Val(cookies.email)
  /\ cookies.password # Null
  /\ row.password = Val(cookies.password)
  /\ row.logged_in = TRUE
  /\ row.last_seen # Null
  /\ t - SecondsToTicks(Val(row.last_seen)) < SecondsToTicks(SESSION_SECONDS)

\* User.get(...) of get_logged_in_user: the id found, or Null.
SessionUser(us, cookies, t) ==
  FirstOf({i \in UserIds(us) : SessionMatches(us[i], cookies, t)})

\* The lookup of login with the resolver's logged_in test added.
CredentialsUserLoggedIn(us, email, password) ==
  FirstOf({i \in UserIds(us) :
             us[i].email = email /\ us[i].password = password /\ us[i].logged_in})

\* User.get(User.email == email, User.password == password) of login.
CredentialsUser(us, email, password) ==
  FirstOf({i \in UserIds(us) : us[i].email = email /\ us[i].password = password})

\* --------------------------------------------------------- responses
NoError == <<>>
Redirect(route, to) ==
  [NoResponse EXCEPT !.kind = "redirect", !.route = route, !.at = to]
\* A not-found answered like return_book's success, by a redirect.
Abort404Redirecting(route) ==
  [NoResponse EXCEPT !.kind = "redirect", !.route = route, !.at = "/home"]
Abort404(route) ==
  [NoResponse EXCEPT !.kind = "abort", !.route = route, !.at = "404",
                     !.error = <<"Book not found.">>]
FormView(route, template, form, error) ==
  [NoResponse EXCEPT !.kind = "view", !.route = route, !.at = template,
                     !.form = Some(form), !.error = error]
UserView(route, template, uid, listed) ==
  [NoResponse EXCEPT !.kind = "view", !.route = route, !.at = template,
                     !.user = Some(uid), !.books = listed]

\* register's checks with the email tested first.
RegisterFormErrorEmailFirst(form) ==
  IF form.email = "" THEN <<"Please enter an email address.">>
  ELSE IF form.first_name = "" THEN <<"Please enter a First Name.">>
  ELSE IF form.last_name = "" THEN <<"Please enter a Last Name.">>
  ELSE IF form.password = "" THEN <<"Please enter a password.">>
  ELSE NoError

\* The first failed check of register's form, or NoError.
RegisterFormError(form) ==
  IF form.first_name = "" THEN <<"Please enter a First Name.">>
  ELSE IF form.last_name = "" THEN <<"Please enter a Last Name.">>
  ELSE IF form.email = "" THEN <<"Please enter an email address.">>
  ELSE IF form.password = "" THEN <<"Please enter a password.">>
  ELSE NoError

AlreadyRegistered(email) ==
  <<"User with email ", email, " already registered. Please <a href='login'/>login</a> instead">>

\* login's checks with the password tested first.
LoginFormErrorPasswordFirst(form) ==
  IF form.password = "" THEN <<"Please enter a password.">>
  ELSE IF form.email = "" THEN <<"Please enter an email address.">>
  ELSE NoError

\* The first failed check of login's form, or NoError.
LoginFormError(form) ==
  IF form.email = "" THEN <<"Please enter an email address.">>
  ELSE IF form.password = "" THEN <<"Please enter a password.">>
  ELSE NoError

BadLogin == <<"Bad email/password. Please try again or Register.">>

RegisterForms ==
  [email : FormEmails, password : FormPasswords,
   first_name : FormFirstNames, last_name : FormLastNames]
\* login reads email and password only; the template is given the two back.
LoginForms == [email : FormEmails, password : FormPasswords]


\* ------------------------------------------------------------- books
\* The query of borrow_books: book LEFT JOIN user, LEFT JOIN the through
\* table, INNER JOIN author, GROUP BY book.id: the ids of the books that
\* come out of the joins.
JoinedBooks(bs, ba) ==
  {b \in DOMAIN bs : \E a \in AuthorIds : <<b, a>> \in ba}

\* ORDER BY title of a set of book ids.
OrderByTitle(S) ==
  CHOOSE s \in [1 .. Cardinality(S) -> S] :
    /\ \A i, j \in DOMAIN s : i < j => TitleRank[s[i]] < TitleRank[s[j]]
    /\ \A b \in S : \E i \in DOMAIN s : s[i] = b

\* [book for book in books if book.borrowed_by != user]
NotBorrowedBy(bs, S, uid) == {b \in S : bs[b].borrowed_by # Some(uid)}

BorrowableList(bs, ba, uid) == OrderByTitle(NotBorrowedBy(bs, JoinedBooks(bs, ba), uid))

\* borrow_book without its borrowed_at assignment.
BorrowedRowNoDate(uid, t) == [borrowed_by |-> Some(uid), borrowed_at |-> Null]

\* The rows borrow_book and return_book save.
BorrowedRow(uid, t) == [borrowed_by |-> Some(uid), borrowed_at |-> Some(DateToday(t))]
ReturnedRow == [borrowed_by |-> Null, borrowed_at |-> Null]

\* A return date counted from the day of the call.
return_date_from_today(row, t) == DateToday(t) + ALLOWED_BORROW_DAYS

\* Book.return_date: today when borrowed_at is None, otherwise borrowed_at
\* + timedelta(days=ALLOWED_BORROW_DAYS). Dates are day numbers.
return_date(row, t) ==
  IF row.borrowed_at = Null
  THEN DateToday(t)
  ELSE Val(row.borrowed_at) + ALLOWED_BORROW_DAYS

\* ------------------------------------------------------------- steps
Idle(c) == pc[c] = "idle"

Finish(c, response) ==
  /\ pc' = [pc EXCEPT ![c] = "idle"]
  /\ loc' = [loc EXCEPT ![c] = NoLocals]
  /\ resp' = [response EXCEPT !.client = c]

\* The routes that call get_logged_in_user first.
PrivateRoutes == {"home", "borrow_books", "borrow_book", "return_book", "logout"}

\* A redirect that returns instead of raising: return_book goes on to its
\* lookup without a user.
GetLoggedInUserReturning(c, route, book_id) ==
  /\ Idle(c)
  /\ LET found == SessionUser(users, jar[c], now) IN
       IF found = Null /\ route # "return_book"
       THEN Finish(c, Redirect(route, "/login"))
       ELSE /\ pc' = [pc EXCEPT ![c] = IF found = Null THEN "book_get" ELSE "auth_save"]
            /\ loc' = [loc EXCEPT ![c] =
                 [route |-> route,
                  user |-> IF found = Null THEN Null
                           ELSE Some(LoadUser(users, Val(found))),
                  book_id |-> book_id, form |-> Null]]
            /\ resp' = NoResponse
  /\ UNCHANGED <<now, users, books, book_author, jar, stamp>>

\* get_logged_in_user, to its SELECT: a private route is requested with the
\* browser's cookies. No row found: redirect("/login") raises, and the
\* request ends. A row found: the handler goes on to save last_seen.
GetLoggedInUser(c, route, book_id) ==
  /\ Idle(c)
  /\ LET found == SessionUser(users, jar[c], now) IN
       IF found = Null
       THEN Finish(c, Redirect(route, "/login"))
       ELSE /\ pc' = [pc EXCEPT ![c] = "auth_save"]
            /\ loc' = [loc EXCEPT ![c] =
                 [route |-> route, user |-> Some(LoadUser(users, Val(found))),
                  book_id |-> book_id, form |-> Null]]
            /\ resp' = NoResponse
  /\ UNCHANGED <<now, users, books, book_author, jar, stamp>>

\* Where a private route goes on once get_logged_in_user has returned.
AfterAuth(route) ==
  CASE route = "borrow_books" -> "list"
    [] route = "borrow_book" -> "book_get"
    [] route = "return_book" -> "book_get"
    [] route = "logout" -> "logout_save"
    [] OTHER -> "idle"

\* get_logged_in_user, from its SELECT on: user.last_seen = time.time();
\* user.save(); return user. home returns its page right after.
SaveLastSeen(c) ==
  /\ pc[c] = "auth_save"
  /\ LET inst == [Val(loc[c].user) EXCEPT !.last_seen = Some(now)] IN
       /\ users' = SaveUser(users, inst)
       /\ stamp' = Stamp(inst)
       /\ IF loc[c].route = "home"
          THEN Finish(c, UserView("home", "templates/home", inst.id, <<>>))
          ELSE /\ pc' = [pc EXCEPT ![c] = AfterAuth(loc[c].route)]
               /\ loc' = [loc EXCEPT ![c].user = Some(inst)]
               /\ UNCHANGED resp
  /\ UNCHANGED <<now, books, book_author, jar>>

Home(c) == GetLoggedInUser(c, "home", 0)
BorrowBooks(c) == GetLoggedInUser(c, "borrow_books", 0)
BorrowBook(c, book_id) == GetLoggedInUser(c, "borrow_book", book_id)
ReturnBook(c, book_id) == GetLoggedInUser(c, "return_book", book_id)
Logout(c) == GetLoggedInUser(c, "logout", 0)

\* borrow_books, after the resolver: the query and the filter.
ListBooks(c) ==
  /\ pc[c] = "list"
  /\ LET uid == Val(loc[c].user).id IN
       Finish(c, UserView("borrow_books", "templates/borrow_books", uid,
                          BorrowableList(books, book_author, uid)))
  /\ UNCHANGED <<now, users, books, book_author, jar, stamp>>

\* A lookup of borrow_book that refuses a book another user holds.
BookGetAvailableOnly(c) ==
  /\ pc[c] = "book_get"
  /\ IF /\ loc[c].book_id \in DOMAIN books
        /\ (loc[c].route = "borrow_book" =>
              books[loc[c].book_id].borrowed_by \in {Null, Some(Val(loc[c].user).id)})
     THEN /\ pc' = [pc EXCEPT ![c] = "book_save"]
          /\ UNCHANGED <<loc, resp>>
     ELSE Finish(c, Abort404(loc[c].route))
  /\ UNCHANGED <<now, users, books, book_author, jar, stamp>>

\* Book.get(id=book_id) of borrow_book and return_book; abort(404) raises.
BookGet(c) ==
  /\ pc[c] = "book_get"
  /\ IF loc[c].book_id \in DOMAIN books
     THEN /\ pc' = [pc EXCEPT ![c] = "book_save"]
          /\ UNCHANGED <<loc, resp>>
     ELSE Finish(c, Abort404(loc[c].route))
  /\ UNCHANGED <<now, users, books, book_author, jar, stamp>>

\* A return_book that returns every book its caller holds.
BookSaveReturningAll(c) ==
  /\ pc[c] = "book_save"
  /\ LET uid == Val(loc[c].user).id
         b == loc[c].book_id IN
       IF loc[c].route = "borrow_book"
       THEN /\ books' = [books EXCEPT ![b] = BorrowedRow(uid, now)]
            /\ Finish(c, UserView("borrow_book", "templates/borrow_book", uid, <<b>>))
       ELSE /\ books' = [o \in DOMAIN books |->
                          IF o = b \/ books[o].borrowed_by = Some(uid)
                          THEN ReturnedRow ELSE books[o]]
            /\ Finish(c, Redirect("return_book", "/home"))
  /\ UNCHANGED <<now, users, book_author, jar, stamp>>

\* A logout that gives back the books of its user.
LogoutSaveReturningBooks(c) ==
  /\ pc[c] = "logout_save"
  /\ users' = SaveUser(users, [Val(loc[c].user) EXCEPT !.logged_in = FALSE])
  /\ stamp' = Stamp(Val(loc[c].user))
  /\ books' = [o \in DOMAIN books |->
                 IF books[o].borrowed_by = Some(Val(loc[c].user).id)
                 THEN ReturnedRow ELSE books[o]]
  /\ Finish(c, Redirect("logout", "/login"))
  /\ UNCHANGED <<now, book_author, jar>>

\* A borrow_book whose save gives way to a borrower that came first.
BookSaveFirstWins(c) ==
  /\ pc[c] = "book_save"
  /\ LET uid == Val(loc[c].user).id
         b == loc[c].book_id IN
       IF loc[c].route = "borrow_book"
       THEN IF books[b].borrowed_by \in {Null, Some(uid)}
            THEN /\ books' = [books EXCEPT ![b] = BorrowedRow(uid, now)]
                 /\ Finish(c, UserView("borrow_book", "templates/borrow_book", uid, <<b>>))
            ELSE /\ books' = books
                 /\ Finish(c, Abort404("borrow_book"))
       ELSE /\ books' = [books EXCEPT ![b] = ReturnedRow]
            /\ Finish(c, Redirect("return_book", "/home"))
  /\ UNCHANGED <<now, users, book_author, jar, stamp>>

\* A return_book that forgets its borrowed_at assignment.
BookSaveKeepingDate(c) ==
  /\ pc[c] = "book_save"
  /\ LET uid == Val(loc[c].user).id
         b == loc[c].book_id IN
       IF loc[c].route = "borrow_book"
       THEN /\ books' = [books EXCEPT ![b] = BorrowedRow(uid, now)]
            /\ Finish(c, UserView("borrow_book", "templates/borrow_book", uid, <<b>>))
       ELSE /\ books' = [books EXCEPT ![b].borrowed_by = Null]
            /\ Finish(c, Redirect("return_book", "/home"))
  /\ UNCHANGED <<now, users, book_author, jar, stamp>>

\* A return_book that clears only a book its caller holds.
BookSaveOwnOnly(c) ==
  /\ pc[c] = "book_save"
  /\ LET uid == Val(loc[c].user).id
         b == loc[c].book_id IN
       IF loc[c].route = "borrow_book"
       THEN /\ books' = [books EXCEPT ![b] = BorrowedRow(uid, now)]
            /\ Finish(c, UserView("borrow_book", "templates/borrow_book", uid, <<b>>))
       ELSE /\ books' = IF books[b].borrowed_by = Some(uid)
                        THEN [books EXCEPT ![b] = ReturnedRow] ELSE books
            /\ Finish(c, Redirect("return_book", "/home"))
  /\ UNCHANGED <<now, users, book_author, jar, stamp>>

\* borrow_book: borrowed_by = user; borrowed_at = today; book.save().
\* return_book: both None; book.save(); redirect("/home").
BookSave(c) ==
  /\ pc[c] = "book_save"
  /\ LET uid == Val(loc[c].user).id
         b == loc[c].book_id IN
       IF loc[c].route = "borrow_book"
       THEN /\ books' = [books EXCEPT ![b] = BorrowedRow(uid, now)]
            /\ Finish(c, UserView("borrow_book", "templates/borrow_book", uid, <<b>>))
       ELSE /\ books' = [books EXCEPT ![b] = ReturnedRow]
            /\ Finish(c, Redirect("return_book", "/home"))
  /\ UNCHANGED <<now, users, book_author, jar, stamp>>

\* A logout that also blanks the password its cookies repeat.
LogoutSaveForgettingPassword(c) ==
  /\ pc[c] = "logout_save"
  /\ users' = SaveUser(users, [Val(loc[c].user) EXCEPT !.logged_in = FALSE,
                                                        !.password = ""])
  /\ stamp' = Stamp(Val(loc[c].user))
  /\ Finish(c, Redirect("logout", "/login"))
  /\ UNCHANGED <<now, books, book_author, jar>>

\* A logout that ends the session in the browser alone: the cookies are
\* deleted and the row is saved as read.
LogoutSaveCookieOnly(c) ==
  /\ pc[c] = "logout_save"
  /\ users' = SaveUser(users, Val(loc[c].user))
  /\ stamp' = Stamp(Val(loc[c].user))
  /\ jar' = [jar EXCEPT ![c] = NoCookies]
  /\ Finish(c, Redirect("logout", "/login"))
  /\ UNCHANGED <<now, books, book_author>>

\* A logout that saves the user without the logged_in assignment.
LogoutSaveKeepingLogin(c) ==
  /\ pc[c] = "logout_save"
  /\ users' = SaveUser(users, Val(loc[c].user))
  /\ stamp' = Stamp(Val(loc[c].user))
  /\ Finish(c, Redirect("logout", "/login"))
  /\ UNCHANGED <<now, books, book_author, jar>>

\* logout, after the resolver: user.logged_in = False; user.save().
LogoutSave(c) ==
  /\ pc[c] = "logout_save"
  /\ users' = SaveUser(users, [Val(loc[c].user) EXCEPT !.logged_in = FALSE])
  /\ stamp' = Stamp(Val(loc[c].user))
  /\ Finish(c, Redirect("logout", "/login"))
  /\ UNCHANGED <<now, books, book_author, jar>>

\* POST /register to User.create: the form's checks, then the INSERT, which
\* the unique index on email refuses (IntegrityError).
Register(c, form) ==
  /\ Idle(c)
  /\ IF RegisterFormError(form) # NoError
     THEN /\ Finish(c, FormView("register", "templates/register", form,
                               RegisterFormError(form)))
          /\ UNCHANGED users
     ELSE IF EmailTaken(users, form.email)
     THEN /\ Finish(c, FormView("register", "templates/register", form,
                               AlreadyRegistered(form.email)))
          /\ UNCHANGED users
     ELSE /\ users' = Append(users, UserRow(NewUser(users, form)))
          /\ pc' = [pc EXCEPT ![c] = "set_logged_in"]
          /\ loc' = [loc EXCEPT ![c] =
               [route |-> "register", user |-> Some(NewUser(users, form)),
                book_id |-> 0, form |-> Some(form)]]
          /\ resp' = NoResponse
  /\ UNCHANGED <<now, books, book_author, jar, stamp>>

\* A login that tells an unknown email from a wrong password.
LoginRevealing(c, form) ==
  /\ Idle(c)
  /\ LET found == CredentialsUser(users, form.email, form.password) IN
       IF LoginFormError(form) # NoError
       THEN Finish(c, FormView("login", "templates/login", form, LoginFormError(form)))
       ELSE IF found = Null
       THEN Finish(c, FormView("login", "templates/login", form,
                               IF EmailTaken(users, form.email)
                               THEN <<"Bad password.">> ELSE <<"Unknown email.">>))
       ELSE /\ pc' = [pc EXCEPT ![c] = "set_logged_in"]
            /\ loc' = [loc EXCEPT ![c] =
                 [route |-> "login", user |-> Some(LoadUser(users, Val(found))),
                  book_id |-> 0, form |-> Some(form)]]
            /\ resp' = NoResponse
  /\ UNCHANGED <<now, users, books, book_author, jar, stamp>>

\* POST /login to User.get: the form's checks, then the lookup by email and
\* password.
Login(c, form) ==
  /\ Idle(c)
  /\ LET found == CredentialsUser(users, form.email, form.password) IN
       IF LoginFormError(form) # NoError
       THEN Finish(c, FormView("login", "templates/login", form, LoginFormError(form)))
       ELSE IF found = Null
       THEN Finish(c, FormView("login", "templates/login", form, BadLogin))
       ELSE /\ pc' = [pc EXCEPT ![c] = "set_logged_in"]
            /\ loc' = [loc EXCEPT ![c] =
                 [route |-> "login", user |-> Some(LoadUser(users, Val(found))),
                  book_id |-> 0, form |-> Some(form)]]
            /\ resp' = NoResponse
  /\ UNCHANGED <<now, users, books, book_author, jar, stamp>>

\* The cookies set_logged_in_user signs into the response.
SessionCookies(inst) == [email |-> Some(inst.email), password |-> Some(inst.password)]

\* set_logged_in_user(user); redirect("/home"): the cookies, logged_in,
\* last_seen = time.time(), user.save(). The browser keeps the cookies of
\* the redirect.
SetLoggedInUser(c) ==
  /\ pc[c] = "set_logged_in"
  /\ LET inst == [Val(loc[c].user) EXCEPT !.logged_in = TRUE, !.last_seen = Some(now)] IN
       /\ users' = SaveUser(users, inst)
       /\ stamp' = Stamp(inst)
       /\ jar' = [jar EXCEPT ![c] = SessionCookies(inst)]
       /\ Finish(c, Redirect(loc[c].route, "/home"))
  /\ UNCHANGED <<now, books, book_author>>

\* ------------------------------------------------------------- clock
Elapsed == now - StartTime

\* One tick passes.
Tick ==
  /\ Elapsed % LongWait < MaxShortTicks
  /\ now' = now + 1
  /\ UNCHANGED <<users, books, book_author, jar, pc, loc, resp, stamp>>

\* One second less than the session window passes.
Wait ==
  /\ now + LongWait <= Horizon
  /\ now' = now + LongWait
  /\ UNCHANGED <<users, books, book_author, jar, pc, loc, resp, stamp>>

\* No other browser has a request in flight.
Alone(c) == \A d \in Clients \ {c} : Idle(d)

\* Whether browser c's request may take a step: always when the server
\* serves requests concurrently, and only when no other request is in
\* flight when it serves them one at a time.
MayStep(c, serial) == serial => Alone(c)

\* Every step one browser's request can take: a route requested, or the
\* next statement of the handler serving it.
ClientStep(c, serial, registerForms, loginForms, bookIds) ==
  \/ MayStep(c, serial) /\ Home(c)
  \/ MayStep(c, serial) /\ BorrowBooks(c)
  \/ MayStep(c, serial) /\ \E b \in bookIds : BorrowBook(c, b)
  \/ MayStep(c, serial) /\ \E b \in bookIds : ReturnBook(c, b)
  \/ MayStep(c, serial) /\ Logout(c)
  \/ MayStep(c, serial) /\ SaveLastSeen(c)
  \/ MayStep(c, serial) /\ ListBooks(c)
  \/ MayStep(c, serial) /\ BookGet(c)
  \/ MayStep(c, serial) /\ BookSave(c)
  \/ MayStep(c, serial) /\ LogoutSave(c)
  \/ MayStep(c, serial) /\ \E f \in registerForms : Register(c, f)
  \/ MayStep(c, serial) /\ \E f \in loginForms : Login(c, f)
  \/ MayStep(c, serial) /\ SetLoggedInUser(c)

\* The steps of POST /register and POST /login alone, one request at a time.
FormStep(c, registerForms, loginForms) ==
  \/ Alone(c) /\ \E f \in registerForms : Register(c, f)
  \/ Alone(c) /\ \E f \in loginForms : Login(c, f)
  \/ Alone(c) /\ SetLoggedInUser(c)

\* The forms of the behaviours that exercise every route: a registration of
\* a new email and one of a seeded user's email; the seeded user's login, a
\* wrong password for it, and the login of the registered user.
ValidRegisterForms ==
  {f \in RegisterForms : f.first_name = "Ann" /\ f.last_name = "Lee"
                         /\ f.email # "" /\ f.password = "x"}
SomeLoginForms ==
  {f \in LoginForms : f.email # "" /\ f.password # ""
                      /\ (f.email = "a@b.com" => f.password = "x")}

\* The server as run(host='localhost', port=8081) starts it: bottle's
\* default server is wsgiref's, which serves one request at a time. The
\* requests name book 1 or an unknown id.
Next ==
  \/ \E c \in Clients :
       ClientStep(c, TRUE, ValidRegisterForms, SomeLoginForms, {1, 3})
  \/ Tick
  \/ Wait

Spec == Init /\ [][Next]_vars

\* The same routes behind a server that serves requests concurrently: the
\* handlers interleave at their database statements, at one instant.
ConcNext ==
  \E c \in Clients :
    ClientStep(c, FALSE, ValidRegisterForms, SomeLoginForms, {1, 3})

SpecConc == Init /\ [][ConcNext]_vars

\* The two forms with every combination of empty and filled fields.
FormsNext == \E c \in Clients : FormStep(c, RegisterForms, LoginForms)

SpecForms == Init /\ [][FormsNext]_vars

\* The server serving one request at a time, the requests naming every book
\* of the store or an unknown id, while today's date changes.
BooksNext ==
  \/ \E c \in Clients :
       ClientStep(c, TRUE, ValidRegisterForms, SomeLoginForms, UrlBookIds)
  \/ Tick

SpecBooks == Init /\ [][BooksNext]_vars

\* The server started on a database file as it finds it: the users and
\* books of the import, and of the import's book_author_through rows any
\* part (Book.create and the assignment of book.authors are two statements
\* of create_initial_data, in no transaction). One request at a time.
StoreInit ==
  /\ now = StartTime
  /\ users = SeedUsers
  /\ books = SeedBooks
  /\ book_author \in SUBSET SeedBookAuthor
  /\ jar = [c \in Clients |-> NoCookies]
  /\ pc = [c \in Clients |-> "idle"]
  /\ loc = [c \in Clients |-> NoLocals]
  /\ resp = NoResponse
  /\ stamp = Null

StoreNext ==
  \E c \in Clients :
    ClientStep(c, TRUE, ValidRegisterForms, SomeLoginForms, {1, 3})

SpecStore == StoreInit /\ [][StoreNext]_vars

\* Book.return_date called on the Book instances a caller may hold: any
\* borrower or none, borrowed_at none, today, tomorrow or a far day, today's
\* date changing between the calls.
BookInstances ==
  [borrowed_by : {Null} \cup {Some(u) : u \in UserIds(SeedUsers)},
   borrowed_at : {Null, Some(0), Some(1), Some(400)}]

DatesInit ==
  /\ now = StartTime
  /\ users = SeedUsers
  /\ books \in [BookIds -> BookInstances]
  /\ book_author = SeedBookAuthor
  /\ jar = [c \in Clients |-> NoCookies]
  /\ pc = [c \in Clients |-> "idle"]
  /\ loc = [c \in Clients |-> NoLocals]
  /\ resp = NoResponse
  /\ stamp = Null

\* book.return_date() is called; resp holds what it returns.
CallReturnDate(b) ==
  /\ resp' = [kind |-> "return_date", book |-> b, date |-> return_date(books[b], now)]
  /\ UNCHANGED <<now, users, books, book_author, jar, pc, loc, stamp>>

DatesNext ==
  \/ \E b \in BookIds : CallReturnDate(b)
  \/ Tick

SpecDates == DatesInit /\ [][DatesNext]_vars

\* ============================================================ claims
\* What a claim calls "now - last_seen < 3600" of a row, in ticks.
Fresh(row) ==
  /\ row.last_seen # Null
  /\ now - Val(row.last_seen) * TicksPerSecond < SESSION_SECONDS * TicksPerSecond

\* The rows a browser's cookies name: email and password both present and
\* equal to the row's.
CookieRows(c) ==
  {i \in UserIds(users) :
     /\ jar[c].email = Some(users[i].email)
     /\ jar[c].password = Some(users[i].password)}

\* The redirect to /login browser c gets from a private route.
LoginRedirect(c, route) ==
  [client |-> c, kind |-> "redirect", route |-> route, at |-> "/login",
   error |-> <<>>, form |-> Null, user |-> Null, books |-> <<>>]

\* The route and the book id of the request browser c makes in a step.
ReqRoute(c) == IF pc'[c] # "idle" THEN loc'[c].route ELSE resp'.route
ReqBook(c) == IF pc'[c] # "idle" THEN loc'[c].book_id ELSE 0

\* Browser c requests a private route in this step: get_logged_in_user
\* runs its SELECT.
ResolverStep(c) ==
  /\ Idle(c)
  /\ ReqRoute(c) \in PrivateRoutes
  /\ GetLoggedInUser(c, ReqRoute(c), ReqBook(c))

\* C1: in every state reachable by any interleaving of the routes' steps, each
\* book has borrowed_by null exactly when borrowed_at is null.
C1_BorrowedFieldsTogether ==
  \A b \in DOMAIN books :
    (books[b].borrowed_by = Null) <=> (books[b].borrowed_at = Null)

\* A borrow has just completed while another browser's return_book stands
\* before its save.
C1_Witness ==
  /\ resp.kind = "view" /\ resp.route = "borrow_book"
  /\ books[1].borrowed_by # Null /\ books[1].borrowed_at # Null
  /\ \E c \in Clients \ {resp.client} :
       pc[c] = "book_save" /\ loc[c].route = "return_book" /\ loc[c].book_id = 1

\* C2: get_logged_in_user returns a user exactly when some row has the
\* cookie's email and password, logged_in true and now - last_seen < 3600;
\* otherwise (cookies absent, last_seen null, ...) no user is returned and
\* the browser is redirected to /login.
C2_ResolverIffMatchingRow ==
  [][\A c \in Clients :
       ResolverStep(c) =>
         LET ok == {i \in CookieRows(c) : users[i].logged_in /\ Fresh(users[i])} IN
           IF ok # {}
           THEN /\ pc'[c] = "auth_save"
                /\ loc'[c].user # Null
                /\ Val(loc'[c].user).id \in ok
           ELSE /\ pc'[c] = "idle"
                /\ loc'[c].user = Null
                /\ resp' = LoginRedirect(c, ReqRoute(c))]_vars

\* A browser holding the cookies of a logged-in user whose session is stale
\* has been sent to /login.
C2_Witness ==
  /\ resp.kind = "redirect" /\ resp.at = "/login" /\ resp.route \in PrivateRoutes
  /\ \E i \in CookieRows(resp.client) :
       users[i].logged_in /\ users[i].last_seen # Null /\ ~Fresh(users[i])

\* C3: the freshness test is on last_seen as stored before the call, and its
\* bound is exclusive: a request exactly 3600 seconds after last_seen is
\* rejected, one 3599 seconds after it is accepted.
C3_BoundaryExclusive ==
  [][\A c \in Clients :
       ResolverStep(c) =>
         \A i \in CookieRows(c) :
           (users[i].logged_in /\ users[i].last_seen # Null) =>
             LET age == now - Val(users[i].last_seen) * TicksPerSecond IN
               /\ age = 3600 * TicksPerSecond =>
                    pc'[c] = "idle" /\ resp' = LoginRedirect(c, ReqRoute(c))
               /\ age = 3599 * TicksPerSecond =>
                    pc'[c] = "auth_save" /\ Val(loc'[c].user).id = i]_vars

\* A request that came exactly 3600 seconds after the stored last_seen of its
\* logged-in user has been sent to /login.
C3_Witness ==
  /\ resp.kind = "redirect" /\ resp.at = "/login" /\ resp.route \in PrivateRoutes
  /\ \E i \in CookieRows(resp.client) :
       /\ users[i].logged_in /\ users[i].last_seen # Null
       /\ now - Val(users[i].last_seen) * TicksPerSecond = 3600 * TicksPerSecond

\* C4: when get_logged_in_user fails in a private route the request ends
\* there: the browser gets the redirect, nothing of the handler runs after,
\* and no user row and no book row is changed.
C4_FailedResolverEndsRequest ==
  [][\A c \in Clients :
       (ResolverStep(c)
          /\ ~\E i \in CookieRows(c) : users[i].logged_in /\ Fresh(users[i])) =>
         /\ pc'[c] = "idle"
         /\ loc'[c] = NoLocals
         /\ resp' = LoginRedirect(c, ReqRoute(c))
         /\ users' = users
         /\ books' = books]_vars

\* return_book was refused to a browser without a session while the book it
\* named was borrowed: the book stays borrowed.
C4_Witness ==
  /\ resp = LoginRedirect(resp.client, "return_book")
  /\ \A c \in Clients : Idle(c)
  /\ \E b \in DOMAIN books : books[b].borrowed_by # Null

\* The form of the request browser c makes in a step, if it posts one.
ReqForm(c) == IF pc'[c] # "idle" THEN loc'[c].form ELSE resp'.form

\* Browser c posts the login form in this step.
LoginStep(c) ==
  /\ Idle(c)
  /\ ReqForm(c) # Null
  /\ Val(ReqForm(c)) \in LoginForms
  /\ Login(c, Val(ReqForm(c)))

\* Browser c posts the register form in this step.
RegisterStep(c) ==
  /\ Idle(c)
  /\ ReqForm(c) # Null
  /\ Val(ReqForm(c)) \in RegisterForms
  /\ Register(c, Val(ReqForm(c)))

\* The redirect to /home that ends a login or a registration.
HomeRedirect(c, route) ==
  [client |-> c, kind |-> "redirect", route |-> route, at |-> "/home",
   error |-> <<>>, form |-> Null, user |-> Null, books |-> <<>>]

\* The form page browser c gets back with an error.
ErrorPage(c, route, template, form, message) ==
  [client |-> c, kind |-> "view", route |-> route, at |-> template,
   error |-> message, form |-> Some(form), user |-> Null, books |-> <<>>]

\* C5: every successful get_logged_in_user sets last_seen to the current
\* time, so a session is accepted as long as each gap between consecutive
\* authenticated requests of its user is under 3600 seconds, and rejected at
\* the first gap of 3600 seconds or more. Stated for the user whose
\* last_seen was saved last, whose previous request's time is stamp.at.
C5_AcceptedWhileGapsShort ==
  [][\A c \in Clients :
       /\ SaveLastSeen(c) =>
            users'[Val(loc[c].user).id].last_seen = Some(now \div TicksPerSecond)
       /\ ResolverStep(c) =>
            \A i \in CookieRows(c) :
              (users[i].logged_in /\ stamp # Null /\ Val(stamp).user = i) =>
                ((now - Val(stamp).at < SESSION_SECONDS * TicksPerSecond)
                   <=> pc'[c] = "auth_save")]_vars

\* C6: a login with both fields filled succeeds exactly when a row has that
\* email and that password, whatever its logged_in and last_seen; on
\* success the row has logged_in true and last_seen the current time (in
\* the whole seconds the column holds), and the cookies sent are accepted
\* by get_logged_in_user.
C6_LoginByCredentials ==
  [][\A c \in Clients :
       /\ (LoginStep(c) /\ Val(ReqForm(c)).email # ""
                        /\ Val(ReqForm(c)).password # "") =>
            LET f == Val(ReqForm(c))
                rows == {i \in UserIds(users) :
                           users[i].email = f.email /\ users[i].password = f.password} IN
              IF rows # {}
              THEN pc'[c] = "set_logged_in" /\ Val(loc'[c].user).id \in rows
              ELSE pc'[c] = "idle" /\ resp'.kind = "view" /\ resp'.error # <<>>
       /\ (SetLoggedInUser(c) /\ loc[c].route = "login") =>
            LET i == Val(loc[c].user).id IN
              /\ resp' = HomeRedirect(c, "login")
              /\ users'[i].logged_in = TRUE
              /\ users'[i].last_seen = Some(now \div TicksPerSecond)
              /\ jar'[c].email = Some(users'[i].email)
              /\ jar'[c].password = Some(users'[i].password)
              /\ now' - Val(users'[i].last_seen) * TicksPerSecond
                   < SESSION_SECONDS * TicksPerSecond]_vars

\* The lookup of a login has found a user whose row says logged in but whose
\* session has expired.
C6_Witness ==
  \E c \in Clients :
    /\ pc[c] = "set_logged_in" /\ loc[c].route = "login"
    /\ LET i == Val(loc[c].user).id IN
         users[i].logged_in /\ users[i].last_seen # Null /\ ~Fresh(users[i])

\* C7: a login whose filled email and password match no row changes no user
\* row, and its response is the same generic error with the fields echoed,
\* whether the email is some user's or nobody's.
C7_FailedLoginGeneric ==
  [][\A c \in Clients :
       (LoginStep(c)
          /\ Val(ReqForm(c)).email # "" /\ Val(ReqForm(c)).password # ""
          /\ ~\E i \in UserIds(users) :
                /\ users[i].email = Val(ReqForm(c)).email
                /\ users[i].password = Val(ReqForm(c)).password) =>
         /\ users' = users
         /\ jar' = jar
         /\ pc'[c] = "idle"
         /\ resp' = ErrorPage(c, "login", "templates/login", Val(ReqForm(c)),
                              <<"Bad email/password. Please try again or Register.">>)]_vars

\* A login with an existing user's email and a wrong password got the
\* generic error.
C7_Witness ==
  /\ resp.kind = "view" /\ resp.route = "login"
  /\ resp.error = <<"Bad email/password. Please try again or Register.">>
  /\ \E i \in UserIds(users) :
       users[i].email = Val(resp.form).email /\ users[i].password # Val(resp.form).password

\* C8: no two user rows ever have the same email; a registration that passes
\* the form's checks with an email already in use, also while another
\* registration of that email is in flight, gets the already-registered
\* error, adds no row and changes no row.
C8_UniqueEmail ==
  /\ [](\A i, j \in UserIds(users) : users[i].email = users[j].email => i = j)
  /\ [][\A c \in Clients :
          (RegisterStep(c)
             /\ Val(ReqForm(c)).first_name # "" /\ Val(ReqForm(c)).last_name # ""
             /\ Val(ReqForm(c)).email # "" /\ Val(ReqForm(c)).password # ""
             /\ \E i \in UserIds(users) : users[i].email = Val(ReqForm(c)).email) =>
            /\ users' = users
            /\ pc'[c] = "idle"
            /\ resp' = ErrorPage(c, "register", "templates/register", Val(ReqForm(c)),
                 <<"User with email ", Val(ReqForm(c)).email,
                   " already registered. Please <a href='login'/>login</a> instead">>)]_vars

\* A registration was refused for the email of another registration that is
\* still in flight: its row is inserted, its session not yet set.
C8_Witness ==
  \E c \in Clients :
    /\ pc[c] = "set_logged_in" /\ loc[c].route = "register"
    /\ resp.client # c /\ resp.kind = "view" /\ resp.route = "register"
    /\ Val(resp.form).email = Val(loc[c].user).email
    /\ users[Val(loc[c].user).id].last_seen = Null

\* C9: after a successful registration the new row has logged_in true and
\* last_seen the current time, and any request with the cookies sent, made
\* less than 3600 seconds later with no login between, is accepted. Stated
\* for the first request after the registration's response.
C9_RegisteredSessionActive ==
  [][\A c \in Clients :
       /\ (SetLoggedInUser(c) /\ loc[c].route = "register") =>
            LET i == Val(loc[c].user).id IN
              /\ resp' = HomeRedirect(c, "register")
              /\ users'[i].logged_in = TRUE
              /\ users'[i].last_seen = Some(now \div TicksPerSecond)
              /\ jar'[c].email = Some(users'[i].email)
              /\ jar'[c].password = Some(users'[i].password)
       /\ (ResolverStep(c) /\ resp = HomeRedirect(c, "register")) =>
            \A i \in CookieRows(c) :
              (stamp # Null /\ Val(stamp).user = i
                 /\ now - Val(stamp).at < SESSION_SECONDS * TicksPerSecond) =>
                pc'[c] = "auth_save"]_vars

\* C10: register checks first_name, last_name, email, password in that
\* order: the error is that of the first empty field, every field comes
\* back as sent, and no user row is added or changed.
C10_RegisterValidationOrder ==
  [][\A c \in Clients :
       LET f == Val(ReqForm(c)) IN
         (RegisterStep(c)
            /\ (f.first_name = "" \/ f.last_name = "" \/ f.email = "" \/ f.password = "")) =>
           /\ users' = users
           /\ pc'[c] = "idle"
           /\ resp' = ErrorPage(c, "register", "templates/register", f,
                CASE f.first_name = "" -> <<"Please enter a First Name.">>
                  [] f.first_name # "" /\ f.last_name = "" ->
                       <<"Please enter a Last Name.">>
                  [] f.first_name # "" /\ f.last_name # "" /\ f.email = "" ->
                       <<"Please enter an email address.">>
                  [] OTHER -> <<"Please enter a password.">>)]_vars

\* A form without last name, email and password got the last name's error.
C10_Witness ==
  /\ resp.kind = "view" /\ resp.route = "register"
  /\ resp.error = <<"Please enter a Last Name.">>
  /\ Val(resp.form).first_name # "" /\ Val(resp.form).last_name = ""
  /\ Val(resp.form).email = "" /\ Val(resp.form).password = ""

\* The handler of browser c, serving the given route for an existing book,
\* stands at the given statement.
BookRequestAt(c, route, at) ==
  /\ pc[c] = at
  /\ loc[c].route = route
  /\ loc[c].book_id \in DOMAIN books

\* C11: for an authenticated user U and an existing book, borrow_book finds
\* the book and saves borrowed_by = U and borrowed_at = today whatever the
\* row held before, also when another user X holds the book; the response
\* is the page of the borrowed book, not an error, and no other book changes.
C11_BorrowTakesOver ==
  [][\A c \in Clients :
       /\ (BookRequestAt(c, "borrow_book", "book_get") /\ BookGet(c)) =>
            pc'[c] = "book_save" /\ books' = books
       /\ (BookRequestAt(c, "borrow_book", "book_save") /\ BookSave(c)) =>
            LET b == loc[c].book_id
                u == Val(loc[c].user).id IN
              /\ books'[b].borrowed_by = Some(u)
              /\ books'[b].borrowed_at = Some((now \div TicksPerSecond) \div SecondsPerDay)
              /\ \A o \in DOMAIN books \ {b} : books'[o] = books[o]
              /\ pc'[c] = "idle"
              /\ resp'.client = c /\ resp'.kind = "view"
              /\ resp'.at = "templates/borrow_book" /\ resp'.error = <<>>
              /\ resp'.user = Some(u) /\ resp'.books = <<b>>]_vars

\* borrow_book of user U has found a book that another user X borrowed on
\* an earlier day, and stands before its save.
C11_Witness ==
  \E c \in Clients :
    /\ BookRequestAt(c, "borrow_book", "book_save")
    /\ LET row == books[loc[c].book_id] IN
         /\ row.borrowed_by # Null
         /\ row.borrowed_by # Some(Val(loc[c].user).id)
         /\ Val(row.borrowed_at) < (now \div TicksPerSecond) \div SecondsPerDay

\* C12: for an authenticated user V and an existing book, return_book finds
\* the book and saves borrowed_by and borrowed_at null, whether V, another
\* user or nobody holds the book; no other book changes.
C12_ReturnClearsAnyBook ==
  [][\A c \in Clients :
       /\ (BookRequestAt(c, "return_book", "book_get") /\ BookGet(c)) =>
            pc'[c] = "book_save" /\ books' = books
       /\ (BookRequestAt(c, "return_book", "book_save") /\ BookSave(c)) =>
            LET b == loc[c].book_id IN
              /\ books'[b].borrowed_by = Null
              /\ books'[b].borrowed_at = Null
              /\ \A o \in DOMAIN books \ {b} : books'[o] = books[o]
              /\ pc'[c] = "idle"
              /\ resp'.client = c /\ resp'.kind = "redirect" /\ resp'.at = "/home"]_vars

\* return_book of user V has found a book that another user holds, and
\* stands before its save.
C12_Witness ==
  \E c \in Clients :
    /\ BookRequestAt(c, "return_book", "book_save")
    /\ books[loc[c].book_id].borrowed_by # Null
    /\ books[loc[c].book_id].borrowed_by # Some(Val(loc[c].user).id)

\* C13: borrow_book and then return_book of one book that was available
\* leave the book table as it was before the borrow. The borrow's save
\* changes the one row only, to a row that return_book's save undoes; the
\* return's save of a borrowed book makes its row the available row again
\* and changes no other row.
C13_BorrowThenReturnRestores ==
  [][\A c \in Clients :
       /\ (BookRequestAt(c, "borrow_book", "book_save") /\ BookSave(c)
             /\ books[loc[c].book_id] = [borrowed_by |-> Null, borrowed_at |-> Null]) =>
            /\ books'[loc[c].book_id].borrowed_by # Null
            /\ [books' EXCEPT ![loc[c].book_id] = ReturnedRow] = books
       /\ (BookRequestAt(c, "return_book", "book_save") /\ BookSave(c)
             /\ books[loc[c].book_id].borrowed_by # Null) =>
            books' = [books EXCEPT ![loc[c].book_id] =
                        [borrowed_by |-> Null, borrowed_at |-> Null]]]_vars

\* The user who borrowed a book, the only borrowed one, on an earlier day
\* is returning it: return_book stands before its save.
C13_Witness ==
  \E c \in Clients :
    /\ BookRequestAt(c, "return_book", "book_save")
    /\ books[loc[c].book_id].borrowed_by = Some(Val(loc[c].user).id)
    /\ Val(books[loc[c].book_id].borrowed_at) < (now \div TicksPerSecond) \div SecondsPerDay
    /\ \A o \in DOMAIN books \ {loc[c].book_id} : books[o].borrowed_by = Null

\* Browser c's request in flight is a borrow_book or return_book of an id
\* that no book has.
UnknownBookRequest(c) ==
  /\ loc[c].route \in {"borrow_book", "return_book"}
  /\ loc[c].book_id \notin DOMAIN books

\* C14: borrow_book and return_book of an authenticated user with an id
\* that matches no book end with a 404 and change no book; all such a
\* request changes is its caller's last_seen, saved by the resolver before
\* the lookup.
C14_UnknownBookIs404 ==
  [][\A c \in Clients :
       /\ (ResolverStep(c) /\ ReqRoute(c) \in {"borrow_book", "return_book"}
             /\ ReqBook(c) \notin DOMAIN books) =>
            users' = users /\ books' = books /\ jar' = jar
       /\ (UnknownBookRequest(c) /\ SaveLastSeen(c)) =>
            /\ books' = books /\ jar' = jar
            /\ Len(users') = Len(users)
            /\ \A i \in UserIds(users) :
                 /\ [users'[i] EXCEPT !.last_seen = users[i].last_seen] = users[i]
                 /\ users'[i] # users[i] => i = Val(loc[c].user).id
            /\ pc'[c] = "book_get"
       /\ (UnknownBookRequest(c) /\ BookGet(c)) =>
            /\ users' = users /\ books' = books /\ jar' = jar
            /\ pc'[c] = "idle"
            /\ resp' = [client |-> c, kind |-> "abort", route |-> loc[c].route,
                        at |-> "404", error |-> <<"Book not found.">>,
                        form |-> Null, user |-> Null, books |-> <<>>]]_vars

\* return_book of an unknown id got its 404 while a book is borrowed, the
\* caller's last_seen being the second of the request.
C14_Witness ==
  /\ resp.kind = "abort" /\ resp.at = "404" /\ resp.route = "return_book"
  /\ \E b \in DOMAIN books : books[b].borrowed_by # Null
  /\ \E i \in CookieRows(resp.client) :
       users[i].last_seen = Some(now \div TicksPerSecond)

\* C15: the list borrow_books gives user Y holds every book of the store
\* that Y does not hold, once each, and no book Y holds: available books
\* and books of another user are listed whatever author rows the book has,
\* none included.
C15_ListsEveryBookNotHeld ==
  [][\A c \in Clients :
       ListBooks(c) =>
         LET y == Val(loc[c].user).id
             listed == resp'.books
             wanted == {b \in DOMAIN books : books[b].borrowed_by # Some(y)} IN
           /\ resp'.kind = "view" /\ resp'.at = "templates/borrow_books"
           /\ {listed[k] : k \in DOMAIN listed} = wanted
           /\ Len(listed) = Cardinality(wanted)]_vars

\* C16: Book.return_date returns today's date when borrowed_at is null,
\* and borrowed_at + 30 days for every other borrowed_at, whatever today's
\* date and borrowed_by are.
C16_ReturnDate ==
  [][\A b \in BookIds :
       CallReturnDate(b) =>
         /\ books[b].borrowed_at = Null =>
              resp'.date = (now \div TicksPerSecond) \div SecondsPerDay
         /\ books[b].borrowed_at # Null =>
              resp'.date = Val(books[b].borrowed_at) + 30]_vars

\* return_date was called, on a day that is over by now, for a book with
\* no borrower whose borrowed_at was neither that day nor today, and gave
\* the 30th day after borrowed_at.
C16_Witness ==
  /\ resp.kind = "return_date"
  /\ books[resp.book].borrowed_by = Null
  /\ books[resp.book].borrowed_at = Some(400)
  /\ resp.date = 430
  /\ (now \div TicksPerSecond) \div SecondsPerDay = 1

\* Browsers c and d, of two users, both have a borrow_book of the same
\* existing book in flight, each at its lookup or at its save.
BorrowingTogether(c, d) ==
  /\ c # d
  /\ \E at \in {"book_get", "book_save"} : BookRequestAt(c, "borrow_book", at)
  /\ \E at \in {"book_get", "book_save"} : BookRequestAt(d, "borrow_book", at)
  /\ loc[c].book_id = loc[d].book_id
  /\ Val(loc[c].user).id # Val(loc[d].user).id

\* C17: when two users' borrow_book requests of one book run concurrently,
\* in every interleaving of their lookups and saves neither gets an error:
\* each lookup finds the book, each save writes its own user and today and
\* answers with the book's page, and leaves the other request as it stands;
\* so the row is that of the request that saved last.
C17_ConcurrentBorrowsBothSucceed ==
  [][\A c, d \in Clients :
       BorrowingTogether(c, d) =>
         /\ BookGet(c) =>
              /\ pc'[c] = "book_save" /\ books' = books
              /\ pc'[d] = pc[d] /\ loc'[d] = loc[d]
         /\ BookSave(c) =>
              /\ books'[loc[c].book_id] =
                   [borrowed_by |-> Some(Val(loc[c].user).id),
                    borrowed_at |-> Some((now \div TicksPerSecond) \div SecondsPerDay)]
              /\ pc'[c] = "idle"
              /\ resp'.client = c /\ resp'.kind = "view"
              /\ resp'.at = "templates/borrow_book" /\ resp'.error = <<>>
              /\ pc'[d] = pc[d] /\ loc'[d] = loc[d]]_vars

\* One user's borrow_book has saved and got its page while the other
\* user's borrow_book of the same book, past its lookup, stands before its
\* save.
C17_Witness ==
  \E d \in Clients \ {resp.client} :
    /\ resp.kind = "view" /\ resp.route = "borrow_book"
    /\ BookRequestAt(d, "borrow_book", "book_save")
    /\ resp.books = <<loc[d].book_id>>
    /\ books[loc[d].book_id].borrowed_by = resp.user
    /\ resp.user # Some(Val(loc[d].user).id)

\* C18: no request deletes a user row or changes a user's email, password,
\* first_name, last_name or is_admin: the table only grows, one row at a
\* registration, and logged_in and last_seen are all that changes in a row.
C18_UsersOnlyGrow ==
  [][/\ Len(users') >= Len(users)
     /\ \A i \in UserIds(users) :
          /\ users'[i].email = users[i].email
          /\ users'[i].password = users[i].password
          /\ users'[i].first_name = users[i].first_name
          /\ users'[i].last_name = users[i].last_name
          /\ users'[i].is_admin = users[i].is_admin
     /\ Len(users') # Len(users) =>
          /\ Len(users') = Len(users) + 1
          /\ \E c \in Clients : RegisterStep(c)]_vars

\* A user has registered and is logged in; another has logged in and out.
C18_Witness ==
  /\ Len(users) > Len(SeedUsers)
  /\ users[Len(users)].logged_in /\ users[Len(users)].last_seen # Null
  /\ \E j \in UserIds(users) : ~users[j].logged_in /\ users[j].last_seen # Null

\* C19: login tests the email before the password: an empty email gets the
\* email's error, also with an empty password; a filled email with an empty
\* password gets the password's error; in both cases no user row changes
\* and no cookie is sent.
C19_LoginValidationOrder ==
  [][\A c \in Clients :
       LET f == Val(ReqForm(c)) IN
         (LoginStep(c) /\ (f.email = "" \/ f.password = "")) =>
           /\ users' = users
           /\ jar' = jar
           /\ pc'[c] = "idle"
           /\ resp' = ErrorPage(c, "login", "templates/login", f,
                                IF f.email = ""
                                THEN <<"Please enter an email address.">>
                                ELSE <<"Please enter a password.">>)]_vars

\* A login with both fields empty got the email's error.
C19_Witness ==
  /\ resp.kind = "view" /\ resp.route = "login"
  /\ resp.error = <<"Please enter an email address.">>
  /\ Val(resp.form).email = "" /\ Val(resp.form).password = ""

\* C20: with the requests served one at a time, logout leaves its user with
\* logged_in false; a request whose cookies name only rows with logged_in
\* false is sent to /login, however recent last_seen is; and logged_in
\* turns true again only in the set_logged_in_user of a login or a
\* registration of that user.
C20_LoggedOutUntilLogin ==
  [][\A c \in Clients :
       /\ LogoutSave(c) =>
            /\ ~users'[Val(loc[c].user).id].logged_in
            /\ resp' = LoginRedirect(c, "logout")
       /\ (ResolverStep(c) /\ \A i \in CookieRows(c) : ~users[i].logged_in) =>
            /\ pc'[c] = "idle"
            /\ resp' = LoginRedirect(c, ReqRoute(c))
            /\ users' = users
       /\ \A i \in UserIds(users) :
            (~users[i].logged_in /\ users'[i].logged_in) =>
              \E d \in Clients :
                /\ SetLoggedInUser(d)
                /\ loc[d].route \in {"login", "register"}
                /\ Val(loc[d].user).id = i]_vars

\* A request with the cookies of a user who logged out less than a second
\* after being seen has been sent to /login.
C20_Witness ==
  /\ resp.kind = "redirect" /\ resp.at = "/login"
  /\ resp.route \in PrivateRoutes \ {"logout"}
  /\ \E i \in CookieRows(resp.client) :
       /\ ~users[i].logged_in
       /\ users[i].last_seen # Null
       /\ now - Val(users[i].last_seen) * TicksPerSecond < TicksPerSecond

\* C21: in every interleaving of a logout of user U with other requests
\* that carry U's cookies, once logout has saved, U's logged_in stays false
\* until the set_logged_in_user of a later login or registration of U.
C21_LogoutNeverLost ==
  [][\A i \in UserIds(users) :
       (~users[i].logged_in /\ users[i].last_seen # Null /\ users'[i].logged_in) =>
         \E d \in Clients :
           /\ SetLoggedInUser(d)
           /\ loc[d].route \in {"login", "register"}
           /\ Val(loc[d].user).id = i]_vars

\* Browser d holds the cookies set_logged_in_user sends for user row i.
HoldsCookiesOf(d, i) ==
  /\ jar[d].email = Some(users[i].email)
  /\ jar[d].password = Some(users[i].password)

\* C22: the session is the user row's, not the cookie's. A logout by one
\* browser leaves the row logged out and every browser's cookies as they
\* were, and from then on every browser's request with U's cookies is
\* refused; a login of U by one browser leaves the other browsers' cookies
\* as they were, and a request with cookies of U is accepted as soon as U's
\* row is logged in and fresh again, whichever browser logged in.
C22_SessionIsTheRows ==
  [][\A c \in Clients :
       /\ LogoutSave(c) =>
            /\ ~users'[Val(loc[c].user).id].logged_in
            /\ jar' = jar
       /\ SetLoggedInUser(c) =>
            \A d \in Clients \ {c} : jar'[d] = jar[d]
       /\ ResolverStep(c) =>
            \A i \in UserIds(users) :
              HoldsCookiesOf(c, i) =>
                /\ ~users[i].logged_in => pc'[c] = "idle" /\ resp' = LoginRedirect(c, ReqRoute(c))
                /\ (users[i].logged_in /\ Fresh(users[i])) =>
                     pc'[c] = "auth_save" /\ Val(loc'[c].user).id = i]_vars

\* User U is logged out and was seen before; one browser still holds U's
\* cookies, issued before the logout, while another browser's login of U
\* has found the row and stands before set_logged_in_user.
C22_Witness ==
  \E c \in Clients : \E d \in Clients \ {c} :
    /\ pc[c] = "set_logged_in" /\ loc[c].route = "login"
    /\ LET i == Val(loc[c].user).id IN
         /\ ~users[i].logged_in /\ users[i].last_seen # Null
         /\ HoldsCookiesOf(d, i)
    /\ Idle(d)

\* Browser c's request in flight is a borrow_book or return_book of an
\* existing book.
KnownBookRequest(c) ==
  /\ loc[c].route \in {"borrow_book", "return_book"}
  /\ loc[c].book_id \in DOMAIN books

\* C23: a successful borrow_book or return_book of book b by user U changes
\* b's borrowed_by and borrowed_at and U's last_seen and nothing else: its
\* SELECTs change nothing, the resolver's save changes U's last_seen alone,
\* and the book's save leaves every other book and every user as it is.
C23_BookRequestFrame ==
  [][\A c \in Clients :
       /\ (ResolverStep(c) /\ ReqRoute(c) \in {"borrow_book", "return_book"}
             /\ ReqBook(c) \in DOMAIN books) =>
            users' = users /\ books' = books
       /\ (KnownBookRequest(c) /\ SaveLastSeen(c)) =>
            /\ books' = books
            /\ Len(users') = Len(users)
            /\ \A i \in UserIds(users) :
                 /\ [users'[i] EXCEPT !.last_seen = users[i].last_seen] = users[i]
                 /\ users'[i] # users[i] => i = Val(loc[c].user).id
       /\ (KnownBookRequest(c) /\ BookGet(c)) =>
            users' = users /\ books' = books
       /\ (KnownBookRequest(c) /\ BookSave(c)) =>
            /\ users' = users
            /\ DOMAIN books' = DOMAIN books
            /\ \A o \in DOMAIN books \ {loc[c].book_id} : books'[o] = books[o]]_vars

\* A return_book has succeeded while its caller holds another book and is
\* not the only user logged in: that book is still the caller's.
C23_Witness ==
  /\ resp.kind = "redirect" /\ resp.route = "return_book" /\ resp.at = "/home"
  /\ \E i \in CookieRows(resp.client) :
       /\ \E o \in DOMAIN books : books[o].borrowed_by = Some(i)
       /\ \E b \in DOMAIN books : books[b].borrowed_by = Null
       /\ \E j \in UserIds(users) \ {i} : users[j].logged_in

\* C24: register, login, logout, home, borrow_books and the passing of
\* time change no book: a book's row changes only in the save of a
\* borrow_book or return_book that names it, so a borrowed book stays its
\* borrower's, with its borrowed_at, through the borrower's logout, the
\* expiry of the session and the next login.
C24_OnlyBookRoutesChangeBooks ==
  [][/\ DOMAIN books' = DOMAIN books
     /\ \A b \in DOMAIN books :
          books'[b] # books[b] =>
            \E c \in Clients :
              /\ BookSave(c)
              /\ loc[c].route \in {"borrow_book", "return_book"}
              /\ loc[c].book_id = b]_vars

\* A user borrowed a book on the first day; the session has expired and
\* the user's next request has been sent to /login: the book is still that
\* user's, with the first day as borrowed_at.
C24_Witness ==
  /\ resp.kind = "redirect" /\ resp.at = "/login" /\ resp.route \in PrivateRoutes
  /\ \E i \in CookieRows(resp.client) :
       /\ users[i].logged_in /\ users[i].last_seen # Null /\ ~Fresh(users[i])
       /\ \E b \in DOMAIN books :
            books[b] = [borrowed_by |-> Some(i), borrowed_at |-> Some(0)]

====
